---- MODULE Spec2Model ----
(***************************************************************************)
(* The persistent PTY terminal of crow-mcp: TerminalSession (session.py)   *)
(* driving SubprocessTerminal (backend.py), with the shell, the            *)
(* pseudoterminal and the reader thread as the environment.                *)
(*                                                                         *)
(* Text is a sequence of tokens (strings).  Time is counted in ticks of    *)
(* POLL_INTERVAL (0.5 s): the k-th poll of a call sees elapsed = k-1.      *)
(***************************************************************************)
EXTENDS Integers, Sequences, FiniteSets, TLC

VARIABLES
    s_initialized,     \* TerminalSession._initialized
    s_closed,          \* TerminalSession._closed
    prev_output,       \* TerminalSession.prev_output
    no_change_timeout, \* TerminalSession.no_change_timeout_seconds, in ticks
    b_initialized,     \* SubprocessTerminal._initialized
    b_closed,          \* SubprocessTerminal._closed
    process,           \* SubprocessTerminal.process: "none" | "alive" | "exited"
    fd,                \* SubprocessTerminal._pty_master_fd: "none" | "open"
    reader,            \* reader_thread: "none" | "running" | "selecting" | "exited" | "faulted"
    output_buffer,     \* SubprocessTerminal.output_buffer: sequence of chunks
    maxlen,            \* the maxlen of that deque
    ptyIn,             \* written to the master descriptor, not yet read by the shell side
    ptyOut,            \* printed by the shell side, not yet read by the reader
    pendingSig,        \* SIGINTs sent to the process group and not yet acted on
    shell,             \* "none" | "idle" | "running" | "dead"
    job,               \* number of the call whose command the foreground job runs
    outCount,          \* lines the foreground job has printed
    lastExit,          \* the shell's $?
    cwd,               \* the shell's current working directory
    cmdStatus,         \* exit status the shell produced for the latest call's command
    pc,                \* controller position: "absent" (no session constructed) |
                       \* "new" | "booting" | "failed" (initialize raised) | "idle" |
                       \* "polling" | "escalating" | "closing" | "joining" | "closed"
    calls,             \* execute calls made so far
    command,           \* the command of the call in progress
    timeout,           \* its timeout in ticks, or None
    poll_count,        \* _execute_command's poll_count
    last_output,       \* _execute_command's last_output
    last_change,       \* _execute_command's last_change_time - start_time
    result,            \* what the latest call returned (or raised)
    afterInterrupt,    \* history: 1 after a C-c sent while a job ran, 2 in the next command
    softCall,          \* history: the call that returned a soft timeout with its job running
    late,              \* history: output of that job that reached the buffer afterwards
    dispatched_input,  \* history: the is_input argument of the latest execute call
    seen,              \* history: the snapshot the latest poll of the call in progress read
    stable_from,       \* history: elapsed time of the first of the latest polls that all
                       \* read that same snapshot
    _terminal,         \* main.py's global _terminal: "None" | "session"
    phase,             \* position of a terminal(reset=True) call: "idle" | "closing" |
                       \* "creating"
    sessions,          \* TerminalSession objects constructed so far
    liveOld,           \* history: shell processes of replaced sessions still alive
    openOld,           \* history: sessions that were not closed when they were replaced
    oldCwd,            \* history: the directory the replaced session's shell was in
    reclosed           \* close() calls made on an instance that was already closed

vars ==
    << s_initialized, s_closed, prev_output, no_change_timeout, b_initialized,
       b_closed, process, fd, reader, output_buffer, maxlen, ptyIn, ptyOut, pendingSig,
       shell, job, outCount, lastExit, cwd, cmdStatus, pc, calls, command, timeout,
       poll_count, last_output, last_change, result, afterInterrupt, softCall,
       late, dispatched_input, seen, stable_from, _terminal, phase, sessions, liveOld,
       openOld, oldCwd, reclosed >>

sessionVars == << s_initialized, s_closed, prev_output, no_change_timeout >>
backendVars == << b_initialized, b_closed, process, fd, reader, maxlen >>
shellVars == << shell, job, outCount, lastExit, cmdStatus >>
callVars == << command, timeout, poll_count, last_output, last_change >>
historyVars ==
    << afterInterrupt, softCall, late, dispatched_input, seen, stable_from >>
toolVars == << _terminal, phase, sessions, liveOld, openOld, oldCwd, reclosed >>

----------------------------------------------------------------------------
\* Bounds of the model.

\* execute calls per behaviour
MaxCalls == 2
\* lines one foreground job prints
MaxOut == 1
\* execute calls per behaviour where one call is followed closely
FewCalls == 1
\* execute calls per behaviour around an interrupt: command, C-c, command
InterruptCalls == 3
\* chunks a scaled-down output buffer holds, where eviction is followed
SmallCap == 2
\* calls made on the backend itself per behaviour
BackendCalls == 2
\* TerminalSession objects the tool constructs per behaviour
MaxSessions == 2
\* close() calls on an already closed instance per behaviour
MaxReclose == 2

\* Program constants, in ticks of POLL_INTERVAL where they are durations.

\* NO_CHANGE_TIMEOUT_SECONDS = 30, POLL_INTERVAL = 0.5
NO_CHANGE_TIMEOUT_TICKS == 60
\* the "poll_count % 20 == 0" diagnostic branch of the polling loop
LOG_EVERY_POLLS == 20
\* timeout=None
None == -1
\* the exit_code of a result that carries no shell status
STILL_RUNNING == -1

----------------------------------------------------------------------------
\* Text helpers (Python str operations on token sequences).

IsSpace(t) == t \in {"nl", "cr", " "}

StartsWith(s, p) == Len(p) <= Len(s) /\ SubSeq(s, 1, Len(p)) = p

removeprefix(s, p) ==
    IF StartsWith(s, p) THEN SubSeq(s, Len(p) + 1, Len(s)) ELSE s

RECURSIVE lstrip(_)
lstrip(s) ==
    IF s # <<>> /\ IsSpace(Head(s)) THEN lstrip(Tail(s)) ELSE s

RECURSIVE rstrip(_)
rstrip(s) ==
    IF s # <<>> /\ IsSpace(s[Len(s)]) THEN rstrip(SubSeq(s, 1, Len(s) - 1)) ELSE s

strip(s) == rstrip(lstrip(s))

EndsWith(s, t) == s # <<>> /\ s[Len(s)] = t

\* str.replace(sub, ""): every non-overlapping occurrence, left to right
RECURSIVE replace(_, _)
replace(s, sub) ==
    IF s = <<>> \/ sub = <<>> THEN s
    ELSE IF StartsWith(s, sub) THEN replace(SubSeq(s, Len(sub) + 1, Len(s)), sub)
    ELSE <<Head(s)>> \o replace(Tail(s), sub)

RECURSIVE Flatten(_)
Flatten(chunks) ==
    IF chunks = <<>> THEN <<>> ELSE Head(chunks) \o Flatten(Tail(chunks))

----------------------------------------------------------------------------
\* Completion protocol.  Tokens of the output stream:
\*   "B"  the line ###PS1JSON### (CMD_OUTPUT_PS1_BEGIN) at the start of a line
\*   "E"  ###PS1END### (CMD_OUTPUT_PS1_END)
\*   "J0", "J1", "J130", "J148"  a well-formed payload with that exit_code
\*   "T"  the unexpanded payload template, as echoed when PS1 is installed
\*   "b", "j", "e"  the same text as "B", "J0", "E", printed by a foreground job
\*   "o1", "o2", ...  ordinary output of a foreground job
\*   command characters and "nl" for the echo of typed input.

ExitCodes == {0, 1, 130, 148}

JTok(code) ==
    CASE code = 0 -> "J0" [] code = 1 -> "J1" [] code = 130 -> "J130" [] OTHER -> "J148"

\* directories the shell can be in: the session's work_dir and another one
Dirs == {"work_dir", "dir2"}

\* the payload with that exit_code, printed while the shell is in dir
JTokIn(code, dir) ==
    IF dir = "work_dir" THEN JTok(code)
    ELSE CASE code = 0 -> "K0" [] code = 1 -> "K1" [] code = 130 -> "K130" [] OTHER -> "K148"

JsonTokens == {JTokIn(c, dir) : c \in ExitCodes, dir \in Dirs}

\* The text of a token: what the program can see of it.
Txt(t) ==
    CASE t = "b" -> "B" [] t = "j" -> "J0" [] t = "e" -> "E" [] OTHER -> t

TxtSeq(s) == [i \in 1..Len(s) |-> Txt(s[i])]

\* The prompt string: begin marker, payload evaluated at prompt time, end marker.
to_ps1_prompt(code, dir) == <<"B", JTokIn(code, dir), "E">>

\* a pattern without the end marker: the block is the begin marker and the
\* token after it
EndOfBlock_unterminated(s, i) == IF i + 2 <= Len(s) THEN i + 2 ELSE 0

\* End of the block that begins at s[i]: the first "E" after i with no "B" in
\* between (the lazy group with its negative lookahead), or 0.
EndOfBlock(s, i) ==
    LET ends == {k \in (i + 1)..Len(s) :
                    /\ s[k] = "E"
                    /\ \A m \in (i + 1)..(k - 1) : s[m] # "B" /\ s[m] # "E"}
    IN  IF ends = {} THEN 0 ELSE CHOOSE k \in ends : TRUE

\* CMD_OUTPUT_METADATA_PS1_REGEX.finditer: the non-overlapping blocks, in order
RECURSIVE RegexScan(_, _)
RegexScan(s, i) ==
    IF i > Len(s) THEN <<>>
    ELSE IF s[i] = "B" /\ EndOfBlock(s, i) # 0
         THEN <<[b |-> i, e |-> EndOfBlock(s, i)]>> \o RegexScan(s, EndOfBlock(s, i) + 1)
         ELSE RegexScan(s, i + 1)

CMD_OUTPUT_METADATA_PS1_REGEX(s) == RegexScan(s, 1)

group0(s, m) == SubSeq(s, m.b, m.e)
group1(s, m) == SubSeq(s, m.b + 1, m.e - 1)

\* json.loads of a block's payload succeeds
PayloadParses(p) == Len(strip(p)) = 1 /\ strip(p)[1] \in JsonTokens

\* CmdOutputMetadata.matches_ps1_metadata: the blocks whose payload parses
matches_ps1_metadata(s) ==
    SelectSeq(CMD_OUTPUT_METADATA_PS1_REGEX(s), LAMBDA m : PayloadParses(group1(s, m)))

\* CmdOutputMetadata.from_ps1_match(...).exit_code
from_ps1_match(s, m) ==
    LET t == strip(group1(s, m))[1]
    IN  CHOOSE c \in ExitCodes : \E dir \in Dirs : JTokIn(c, dir) = t

\* CmdOutputMetadata.from_ps1_match(...).working_dir
from_ps1_match_working_dir(s, m) ==
    LET t == strip(group1(s, m))[1]
    IN  CHOOSE dir \in Dirs : \E c \in ExitCodes : JTokIn(c, dir) = t

----------------------------------------------------------------------------
\* Inputs of the model.

\* commands a caller passes to execute
Commands ==
    { <<>>, <<"a">>, <<"C", "-", "c">>, <<"C", "-", "z">>, <<"C", "-", "d">>,
      <<"C", "-", "q">> }

\* commands around the special keys: padded, upper case, unknown, too short,
\* too long, lower-case prefix
DispatchCommands ==
    { <<"a">>, <<"C", "-", "c">>, <<"C", "-", "D">>, <<" ", "C", "-", "q", "nl">>,
      <<"C", "-">>, <<"C", "-", "c", "c">>, <<"c", "-", "c">> }

\* texts a caller passes to send_keys
KeyTexts ==
    { <<>>, <<"a">>, <<"a", "nl">>, <<"a", "cr", "nl">>, <<"a", "cr">>,
      <<"a", "cr", "a">>, <<"^D">> }

\* timeout arguments, in ticks: absent, 0 s, 9.5 s
Timeouts == {None, 0, 19}

\* exit statuses a foreground job ends with on its own
JobExitCodes == {0, 1}

\* the k-th line of ordinary output of a foreground job
OutTok(k) == IF k = 1 THEN "o1" ELSE IF k = 2 THEN "o2" ELSE "o3"

OutTokens == {OutTok(k) : k \in 1..(MaxOut + 1)}

\* what a foreground job may print as its k-th line: ordinary output
PlainLines == [k \in 1..(MaxOut + 1) |-> { <<OutTok(k)>> }]

\* ... or also text that contains the literal markers
MarkerLines ==
    [k \in 1..(MaxOut + 1) |->
        { <<OutTok(k)>>, <<"b">>, <<"e">>, <<"b", "e">>, <<"b", "j", "nl">>,
          <<"b", "j", "e">> }]

\* ... or the shell's current directory, as pwd prints it
PwdLines == [k \in 1..(MaxOut + 1) |-> { <<cwd>> }]

\* the command that installs the prompt, and its echo
PS1Command == <<"P", "nl">>
PS1Echo == <<"B", "T", "E", "nl">>

\* one os.write to the master descriptor: the bytes, and the call that wrote them
Written(data, call) == [d |-> data, c |-> call]

\* a key the returned dict does not have
Absent == "absent"

\* _detect_working_dir: the work_dir the session was constructed with
_detect_working_dir == "work_dir"

\* _detect_python: None
_detect_python == "None"

\* the return statements that put working_dir and py_interpreter in the dict:
\* the timeout, special-key and input results; _build_result's dict has only
\* output and exit_code
HasDetectedKeys(kind) == kind \in {"HARD_TIMEOUT", "SOFT_TIMEOUT", "SPECIAL", "INPUT"}

\* what a call returned: the dict's keys, with the path of execute that
\* produced it, the call's number, command and timeout
Returned(path, kind, out, code, idx, cmd, t) ==
    [path |-> path, kind |-> kind, output |-> out, exit_code |-> code, idx |-> idx,
     cmd |-> cmd, t |-> t,
     working_dir |-> IF HasDetectedKeys(kind) THEN _detect_working_dir ELSE Absent,
     py_interpreter |-> IF HasDetectedKeys(kind) THEN _detect_python ELSE Absent]

NoResult == Returned("none", "none", <<>>, 0, 0, <<>>, None)

----------------------------------------------------------------------------
\* backend.py

\* _normalize_eols: CRLF and lone CR become LF
RECURSIVE _normalize_eols(_)
_normalize_eols(raw) ==
    IF raw = <<>> THEN <<>>
    ELSE IF Head(raw) = "cr"
         THEN IF Len(raw) > 1 /\ raw[2] = "nl"
              THEN <<"nl">> \o _normalize_eols(Tail(Tail(raw)))
              ELSE <<"nl">> \o _normalize_eols(Tail(raw))
         ELSE <<Head(raw)>> \o _normalize_eols(Tail(raw))

\* the bytes send_keys writes
send_keys_data(text, enter) ==
    IF enter /\ ~EndsWith(text, "nl")
    THEN _normalize_eols(text) \o <<"nl">>
    ELSE _normalize_eols(text)

\* a send_keys without its test of _initialized and the descriptor
send_keys_unguarded == FALSE

\* send_keys raises instead of writing
send_keys_raises == ~b_initialized \/ fd = "none"

\* os.write to the master descriptor: once the shell has exited the write fails
\* with EIO, unless a process the shell left behind still holds the slave side
os_write_outcomes == IF process = "exited" THEN {"written", "OSError"} ELSE {"written"}

\* HISTORY_LIMIT + 50, the deque's maxlen
BufferCap == 10050

\* the size argument of os.read
READ_SIZE == 4096

\* os.read: at most READ_SIZE of what is available
os_read(avail) == SubSeq(avail, 1, IF Len(avail) < READ_SIZE THEN Len(avail) ELSE READ_SIZE)

\* a deque that grew without bound
deque_append_unbounded(buf, chunk) == Append(buf, chunk)

\* a deque that took new chunks at its left end
deque_appendleft(buf, chunk) ==
    IF Len(buf) >= maxlen THEN <<chunk>> \o SubSeq(buf, 1, Len(buf) - 1)
    ELSE <<chunk>> \o buf

\* deque.append with maxlen: the oldest chunk is dropped when full
deque_append(buf, chunk) ==
    IF Len(buf) >= maxlen THEN Append(Tail(buf), chunk) ELSE Append(buf, chunk)

\* read_screen: the text of all buffered chunks
read_screen == TxtSeq(Flatten(output_buffer))

\* history: the call that timed out softly has returned, or the empty-command
\* call that follows it is polling
Collecting == softCall > 0 /\ (result.idx = softCall \/ pc = "polling")

\* history: the job's own lines among the tokens of a chunk
JobTokens(chunk) == {chunk[i] : i \in {j \in 1..Len(chunk) : chunk[j] \in OutTokens}}

\* _read_output, one iteration that finds the descriptor readable: os.read
\* returns what is available, appended as one chunk
_read_output ==
    /\ reader = "running"
    /\ ~b_closed
    /\ fd = "open"
    /\ ptyOut # <<>>
    /\ output_buffer' = deque_append(output_buffer, os_read(ptyOut))
    /\ ptyOut' = SubSeq(ptyOut, Len(os_read(ptyOut)) + 1, Len(ptyOut))
    /\ late' = IF Collecting THEN late \cup JobTokens(os_read(ptyOut)) ELSE late
    /\ UNCHANGED << sessionVars, backendVars, cwd, toolVars, ptyIn, pendingSig, shellVars,
                    pc, calls, callVars, result, afterInterrupt, softCall,
                    dispatched_input, seen, stable_from >>

\* _read_output, os.read raising OSError once the shell has exited and nothing
\* is left to read: the thread ends
_read_output_error ==
    /\ reader = "running"
    /\ process = "exited"
    /\ ptyOut = <<>>
    /\ reader' = "exited"
    /\ UNCHANGED << sessionVars, b_initialized, b_closed, process, fd, maxlen, cwd,
                    toolVars, output_buffer, ptyIn, ptyOut, pendingSig, shellVars, pc,
                    calls, callVars, result, historyVars >>

\* _read_output followed statement by statement.  The top of the loop: the
\* "while not self._closed" and "if self._pty_master_fd is None" tests
_read_output_top ==
    /\ reader = "running"
    /\ reader' = IF b_closed \/ fd = "none" THEN "exited" ELSE "selecting"
    /\ UNCHANGED << sessionVars, b_initialized, b_closed, process, fd, maxlen, cwd,
                    toolVars, output_buffer, ptyIn, ptyOut, pendingSig, shellVars, pc,
                    calls, callVars, result, historyVars >>

\* ... then select and os.read on the descriptor the tests let through: on a
\* descriptor closed meanwhile they fail and the thread ends in its handler
_read_output_select ==
    /\ reader = "selecting"
    /\ IF fd = "none"
       THEN /\ reader' = "faulted"
            /\ UNCHANGED << output_buffer, ptyOut >>
       ELSE IF ptyOut # <<>>
       THEN /\ output_buffer' = deque_append(output_buffer, os_read(ptyOut))
            /\ ptyOut' = SubSeq(ptyOut, Len(os_read(ptyOut)) + 1, Len(ptyOut))
            /\ reader' = "running"
       ELSE /\ reader' = IF process = "exited" THEN "exited" ELSE "running"
            /\ UNCHANGED << output_buffer, ptyOut >>
    /\ UNCHANGED << sessionVars, b_initialized, b_closed, process, fd, maxlen, cwd,
                    toolVars, ptyIn, pendingSig, shellVars, pc, calls, callVars, result,
                    historyVars >>

\* TerminalSession.close -> SubprocessTerminal.close: set _closed, SIGTERM to
\* the process group, wait up to 2 s
close_terminate ==
    /\ pc = "idle"
    /\ ~s_closed
    /\ ~b_closed
    /\ b_closed' = TRUE
    /\ IF process = "alive"
       THEN \/ /\ process' = "exited"
               /\ shell' = "dead"
               /\ pc' = "closing"
            \/ /\ pc' = "escalating"
               /\ UNCHANGED << process, shell >>
       ELSE /\ pc' = "closing"
            /\ UNCHANGED << process, shell >>
    /\ UNCHANGED << sessionVars, b_initialized, fd, reader, maxlen, cwd, toolVars,
                    output_buffer, ptyIn, ptyOut, pendingSig, job, outCount, lastExit,
                    cmdStatus, calls, callVars, result, historyVars >>

\* ... the wait timed out: SIGKILL
close_kill ==
    /\ pc = "escalating"
    /\ process' = "exited"
    /\ shell' = "dead"
    /\ pc' = "closing"
    /\ UNCHANGED << sessionVars, b_initialized, b_closed, fd, reader, maxlen, cwd, toolVars,
                    output_buffer, ptyIn, ptyOut, pendingSig, job, outCount, lastExit,
                    cmdStatus, calls, callVars, result, historyVars >>

\* ... os.close of the master descriptor
close_release ==
    /\ pc = "closing"
    /\ fd' = "none"
    /\ pc' = "joining"
    /\ UNCHANGED << sessionVars, b_initialized, b_closed, process, reader, maxlen, cwd,
                    toolVars, output_buffer, ptyIn, ptyOut, pendingSig, shellVars, calls,
                    callVars, result, historyVars >>

\* ... reader_thread.join(timeout=1), which returns whether or not the thread
\* has ended; TerminalSession.close then sets its flag
close_join ==
    /\ pc = "joining"
    /\ pc' = "closed"
    /\ s_closed' = TRUE
    /\ UNCHANGED << s_initialized, prev_output, no_change_timeout, backendVars, cwd,
                    toolVars, output_buffer, ptyIn, ptyOut, pendingSig, shellVars, calls,
                    callVars, result, historyVars >>

\* close() on an instance that was never initialized (or whose initialize
\* raised): there is no process, descriptor or thread; only the flags are set
close_uninitialized ==
    /\ pc \in {"new", "failed"}
    /\ ~s_closed
    /\ ~b_closed
    /\ b_closed' = TRUE
    /\ s_closed' = TRUE
    /\ pc' = "closed"
    /\ UNCHANGED << s_initialized, prev_output, no_change_timeout, b_initialized, process,
                    fd, reader, maxlen, cwd, toolVars, output_buffer, ptyIn, ptyOut,
                    pendingSig, shellVars, calls, callVars, result, historyVars >>

\* a close() that did not test _closed and signalled the process group again
close_again_signalling ==
    /\ pc = "closed"
    /\ reclosed < MaxReclose
    /\ reclosed' = reclosed + 1
    /\ pendingSig' = pendingSig + 1
    /\ UNCHANGED << sessionVars, backendVars, cwd, _terminal, phase, sessions, liveOld,
                    openOld, oldCwd, output_buffer, ptyIn, ptyOut, shellVars, pc, calls,
                    callVars, result, historyVars >>

\* close() on an instance that is already closed, session or backend:
\* "if self._closed: return"
close_again ==
    /\ pc = "closed"
    /\ s_closed
    /\ b_closed
    /\ reclosed < MaxReclose
    /\ reclosed' = reclosed + 1
    /\ UNCHANGED << sessionVars, backendVars, cwd, _terminal, phase, sessions, liveOld,
                    openOld, oldCwd, output_buffer, ptyIn, ptyOut, pendingSig, shellVars,
                    pc, calls, callVars, result, historyVars >>

\* an interrupt() that signalled without testing the process
interrupt_sends_unchecked == pendingSig + 1

\* interrupt(): SIGINT to the process group if the process is alive
interrupt_sends == IF process = "alive" THEN pendingSig + 1 ELSE pendingSig

\* ... and its return value: True after killpg, False when there is no process
\* or it has exited
interrupt_returns == IF process = "alive" THEN "True" ELSE "False"

\* no TerminalSession or SubprocessTerminal method is running
NoCallRunning == pc \in {"new", "failed", "idle", "closed"}

\* SubprocessTerminal.interrupt, called on the backend
interrupt ==
    /\ NoCallRunning
    /\ calls' = calls + 1
    /\ pendingSig' = interrupt_sends
    /\ result' = Returned("interrupt", interrupt_returns, <<>>, 0, calls + 1, <<>>, None)
    /\ UNCHANGED << sessionVars, backendVars, cwd, toolVars, output_buffer, ptyIn, ptyOut,
                    shellVars, pc, callVars, historyVars >>

\* SubprocessTerminal.send_keys, called on the backend
send_keys(text, enter) ==
    LET n == calls + 1
        path == IF enter THEN "send_keys_enter" ELSE "send_keys"
    IN
    /\ NoCallRunning
    /\ calls' = n
    /\ IF send_keys_raises
       THEN /\ result' = Returned(path, "RuntimeError", <<"Terminal not initialized">>, 0,
                                  n, text, None)
            /\ UNCHANGED ptyIn
       ELSE \E w \in os_write_outcomes :
            IF w = "OSError"
            THEN /\ result' = Returned(path, "OSError", <<"Input/output error">>, 0, n,
                                       text, None)
                 /\ UNCHANGED ptyIn
            ELSE /\ ptyIn' = Append(ptyIn, Written(send_keys_data(text, enter), n))
                 /\ result' = Returned(path, "None", <<>>, 0, n, text, None)
    /\ UNCHANGED << sessionVars, backendVars, cwd, toolVars, output_buffer, ptyOut,
                    pendingSig, shellVars, pc, callVars, historyVars >>

----------------------------------------------------------------------------
\* The shell on the slave side of the pseudoterminal (the bash that
\* initialize() spawns) and its foreground job.

NextInput == Head(ptyIn).d

\* The job ends with status code: the shell records $? and prints its prompt.
JobEnds(code) ==
    /\ shell' = "idle"
    /\ lastExit' = code
    /\ cmdStatus' = IF job = calls THEN code ELSE cmdStatus
    /\ job' = 0
    /\ outCount' = 0
    /\ ptyOut' = ptyOut \o to_ps1_prompt(code, cwd)

\* The idle shell reads the next typed line: the prompt installation, an empty
\* line (a new prompt, $? unchanged), a control byte, or a command to run.
ShellRead ==
    /\ shell = "idle"
    /\ ptyIn # <<>>
    /\ ptyIn' = Tail(ptyIn)
    /\ CASE NextInput = <<"^D">> ->
              /\ shell' = "dead"
              /\ process' = "exited"
              /\ UNCHANGED << ptyOut, job, outCount, lastExit >>
         [] NextInput = <<"^Z">> ->
              UNCHANGED << shell, process, ptyOut, job, outCount, lastExit >>
         [] NextInput = PS1Command ->
              /\ ptyOut' = ptyOut \o PS1Echo \o to_ps1_prompt(lastExit, cwd)
              /\ UNCHANGED << shell, process, job, outCount, lastExit >>
         [] NextInput # PS1Command /\ strip(NextInput) = <<>> ->
              /\ ptyOut' = ptyOut \o NextInput \o to_ps1_prompt(lastExit, cwd)
              /\ UNCHANGED << shell, process, job, outCount, lastExit >>
         [] OTHER ->
              /\ ptyOut' = ptyOut \o NextInput
              /\ shell' = "running"
              /\ job' = Head(ptyIn).c
              /\ outCount' = 0
              /\ UNCHANGED << process, lastExit >>
    /\ UNCHANGED << sessionVars, b_initialized, b_closed, fd, reader, maxlen, cwd,
                    toolVars, output_buffer, pendingSig, cmdStatus, pc, calls, callVars,
                    result, historyVars >>

\* The foreground job prints a line.
JobOutput(lines) ==
    /\ shell = "running"
    /\ outCount < MaxOut
    /\ outCount' = outCount + 1
    /\ \E line \in lines[outCount + 1] : ptyOut' = ptyOut \o line
    /\ UNCHANGED << sessionVars, backendVars, cwd, toolVars, output_buffer, ptyIn,
                    pendingSig, shell, job, lastExit, cmdStatus, pc, calls, callVars,
                    result, historyVars >>

\* The foreground job ends on its own.
JobExit ==
    /\ shell = "running"
    /\ \E code \in JobExitCodes : JobEnds(code)
    /\ UNCHANGED << sessionVars, backendVars, cwd, toolVars, output_buffer, ptyIn,
                    pendingSig, pc, calls, callVars, result, historyVars >>

\* The foreground job is a cd: the shell changes its directory, records $? = 0
\* and prints its prompt, whose payload is evaluated in the new directory.
JobChdir ==
    /\ shell = "running"
    /\ outCount = 0
    /\ \E dir \in Dirs \ {cwd} :
          /\ cwd' = dir
          /\ ptyOut' = ptyOut \o to_ps1_prompt(0, dir)
    /\ shell' = "idle"
    /\ lastExit' = 0
    /\ cmdStatus' = IF job = calls THEN 0 ELSE cmdStatus
    /\ job' = 0
    /\ outCount' = 0
    /\ UNCHANGED << sessionVars, backendVars, toolVars, output_buffer, ptyIn, pendingSig,
                    pc, calls, callVars, result, historyVars >>

\* The foreground job reads typed input (the terminal echoes it); a suspend
\* byte stops the job and the shell prompts again.
JobRead ==
    /\ shell = "running"
    /\ ptyIn # <<>>
    /\ ptyIn' = Tail(ptyIn)
    /\ IF NextInput = <<"^Z">>
       THEN /\ shell' = "idle"
            /\ lastExit' = 148
            /\ job' = 0
            /\ outCount' = 0
            /\ ptyOut' = ptyOut \o to_ps1_prompt(148, cwd)
       ELSE /\ ptyOut' = IF NextInput = <<"^D">> THEN ptyOut ELSE ptyOut \o NextInput
            /\ UNCHANGED << shell, lastExit, job, outCount >>
    /\ UNCHANGED << sessionVars, backendVars, cwd, toolVars, output_buffer, pendingSig,
                    cmdStatus, pc, calls, callVars, result, historyVars >>

\* A delivered SIGINT takes effect: a foreground job dies with status 130; an
\* idle shell abandons its line and prompts again.
SigInt ==
    /\ pendingSig > 0
    /\ pendingSig' = pendingSig - 1
    /\ CASE shell = "running" -> JobEnds(130)
         [] shell = "idle" ->
              /\ lastExit' = 130
              /\ ptyOut' = ptyOut \o to_ps1_prompt(130, cwd)
              /\ UNCHANGED << shell, cmdStatus, job, outCount >>
         [] OTHER -> UNCHANGED << shell, lastExit, cmdStatus, job, outCount, ptyOut >>
    /\ UNCHANGED << sessionVars, backendVars, cwd, toolVars, output_buffer, ptyIn, pc,
                    calls, callVars, result, historyVars >>

----------------------------------------------------------------------------
\* session.py

\* the locals of _execute_command, when no call is polling
IdleCall ==
    /\ command' = <<>>
    /\ timeout' = None
    /\ poll_count' = 0
    /\ last_output' = <<>>
    /\ last_change' = 0

\* TerminalSession.initialize -> SubprocessTerminal.initialize, up to the write
\* of the PS1 command: spawn the shell, open the descriptor, start the reader.
initialize_start ==
    /\ pc = "new"
    /\ ~s_initialized
    /\ ~b_initialized
    /\ pc' = "booting"
    /\ process' = "alive"
    /\ shell' = "idle"
    /\ fd' = "open"
    /\ reader' = "running"
    /\ ptyIn' = Append(ptyIn, Written(PS1Command, 0))
    /\ UNCHANGED << sessionVars, b_initialized, b_closed, maxlen, cwd, toolVars,
                    output_buffer, ptyOut, pendingSig, job, outCount, lastExit, cmdStatus,
                    calls, callVars, result, historyVars >>

\* SubprocessTerminal.initialize after its fixed wait: clear the buffer and set
\* the flags; TerminalSession.initialize then sets its own.
initialize_finish ==
    /\ pc = "booting"
    /\ pc' = "idle"
    /\ output_buffer' = <<>>
    /\ b_initialized' = TRUE
    /\ s_initialized' = TRUE
    /\ UNCHANGED << s_closed, prev_output, no_change_timeout, b_closed, process, fd,
                    maxlen, cwd, toolVars, reader, ptyIn, ptyOut, pendingSig, shellVars,
                    calls, callVars, result, historyVars >>

\* an initialize that validated the shell only after it had opened the
\* pseudoterminal and started the process and the reader
initialize_fails_after_spawn ==
    /\ pc = "new"
    /\ ~s_initialized
    /\ ~b_initialized
    /\ pc' = "failed"
    /\ process' = "alive"
    /\ fd' = "open"
    /\ reader' = "running"
    /\ result' = Returned("initialize", "RuntimeError", <<"Shell binary not found">>, 0,
                          calls, <<>>, None)
    /\ UNCHANGED << sessionVars, b_initialized, b_closed, maxlen, cwd, toolVars,
                    output_buffer, ptyIn, ptyOut, pendingSig, shellVars, calls, callVars,
                    historyVars >>

\* initialize raises before anything is allocated: no shell is resolvable, or
\* the resolved path is not a file, or not executable.  Whether the shell
\* resolves is the environment's choice.
initialize_fails ==
    /\ pc = "new"
    /\ ~s_initialized
    /\ ~b_initialized
    /\ pc' = "failed"
    /\ result' = Returned("initialize", "RuntimeError", <<"Shell binary not found">>, 0,
                          calls, <<>>, None)
    /\ UNCHANGED << sessionVars, backendVars, cwd, toolVars, output_buffer, ptyIn, ptyOut,
                    pendingSig, shellVars, calls, callVars, historyVars >>

\* _is_special_key
_is_special_key(cmd) ==
    LET c == strip(cmd) IN Len(c) = 3 /\ c[1] = "C" /\ c[2] = "-"

\* str.upper on the key letter
upper(ch) ==
    CASE ch = "c" -> "C" [] ch = "z" -> "Z" [] ch = "d" -> "D" [] ch = "q" -> "Q"
      [] OTHER -> ch

\* execute on a session that is not initialized, or closed: it raises
execute_refused ==
    /\ pc \in {"new", "idle", "failed", "closed"}
    /\ ~s_initialized \/ s_closed
    /\ calls' = calls + 1
    /\ result' = Returned("refused", "RuntimeError",
                          IF ~s_initialized THEN <<"Terminal session not initialized">>
                          ELSE <<"Terminal session is closed">>,
                          0, calls + 1, <<>>, None)
    /\ UNCHANGED << sessionVars, backendVars, cwd, toolVars, output_buffer, ptyIn, ptyOut,
                    pendingSig, shellVars, pc, callVars, historyVars >>

\* _handle_special_key
_handle_special_key(cmd) ==
    LET key == upper(strip(cmd)[3])
        n == calls + 1
    IN
    /\ calls' = n
    /\ cmdStatus' = None
    /\ afterInterrupt' = IF key = "C" /\ shell = "running" THEN 1 ELSE 0
    /\ softCall' = 0
    /\ late' = {}
    /\ UNCHANGED << seen, stable_from >>
    /\ CASE key = "C" ->
              /\ pendingSig' = interrupt_sends
              /\ result' = Returned("special", "SPECIAL", <<"Process interrupted (Ctrl+C)">>,
                                    130, n, cmd, None)
              /\ UNCHANGED ptyIn
         [] key \in {"Z", "D"} ->
              /\ IF send_keys_raises
                 THEN /\ result' = Returned("special", "RuntimeError",
                                            <<"Terminal not initialized">>, 0, n, cmd, None)
                      /\ UNCHANGED ptyIn
                 ELSE \E w \in os_write_outcomes :
                      IF w = "OSError"
                      THEN /\ result' = Returned("special", "OSError",
                                                 <<"Input/output error">>, 0, n, cmd, None)
                           /\ UNCHANGED ptyIn
                      ELSE /\ ptyIn' = Append(ptyIn, Written(
                                   send_keys_data(IF key = "Z" THEN <<"^Z">> ELSE <<"^D">>,
                                                  FALSE), n))
                           /\ result' = IF key = "Z"
                                 THEN Returned("special", "SPECIAL",
                                               <<"Process suspended (Ctrl+Z)">>, 147, n, cmd,
                                               None)
                                 ELSE Returned("special", "SPECIAL", <<"EOF sent (Ctrl+D)">>,
                                               0, n, cmd, None)
              /\ UNCHANGED pendingSig
         [] OTHER ->
              /\ result' = Returned("special", "SPECIAL", <<"Unknown special key">> \o cmd,
                                    1, n, cmd, None)
              /\ UNCHANGED << ptyIn, pendingSig >>
    /\ UNCHANGED << sessionVars, backendVars, cwd, toolVars, output_buffer, ptyOut, shell,
                    job, outCount, lastExit, pc, callVars >>

\* an input path that cleared the screen before writing, as the command path does
_handle_input_clearing(cmd) ==
    LET n == calls + 1 IN
    /\ calls' = n
    /\ cmdStatus' = None
    /\ afterInterrupt' = 0
    /\ softCall' = 0
    /\ late' = {}
    /\ UNCHANGED << seen, stable_from >>
    /\ output_buffer' = <<>>
    /\ ptyIn' = Append(ptyIn, Written(send_keys_data(cmd, TRUE), n))
    /\ result' = Returned("input", "INPUT", <<"Input sent">> \o cmd, STILL_RUNNING, n,
                          cmd, None)
    /\ UNCHANGED << sessionVars, backendVars, cwd, toolVars, ptyOut, pendingSig, shell,
                    job, outCount, lastExit, pc, callVars >>

\* _handle_input
_handle_input(cmd) ==
    LET n == calls + 1 IN
    /\ calls' = n
    /\ cmdStatus' = None
    /\ afterInterrupt' = 0
    /\ softCall' = 0
    /\ late' = {}
    /\ UNCHANGED << seen, stable_from >>
    /\ IF send_keys_raises
       THEN /\ result' = Returned("input", "RuntimeError",
                                  <<"Terminal not initialized">>, 0, n, cmd, None)
            /\ UNCHANGED ptyIn
       ELSE \E w \in os_write_outcomes :
            IF w = "OSError"
            THEN /\ result' = Returned("input", "OSError", <<"Input/output error">>, 0,
                                       n, cmd, None)
                 /\ UNCHANGED ptyIn
            ELSE /\ ptyIn' = Append(ptyIn, Written(send_keys_data(cmd, TRUE), n))
                 /\ result' = Returned("input", "INPUT", <<"Input sent">> \o cmd,
                                       STILL_RUNNING, n, cmd, None)
    /\ UNCHANGED << sessionVars, backendVars, cwd, toolVars, output_buffer, ptyOut,
                    pendingSig, shell, job, outCount, lastExit, pc, callVars >>

\* a command path that ran each command in a freshly spawned shell, which
\* starts in work_dir
_execute_command_in_new_shell(cmd, t) ==
    LET n == calls + 1 IN
    /\ calls' = n
    /\ cmdStatus' = None
    /\ afterInterrupt' = IF afterInterrupt = 1 THEN 2 ELSE 0
    /\ IF cmd = <<>> /\ softCall > 0 /\ softCall = calls
       THEN UNCHANGED << softCall, late >>
       ELSE softCall' = 0 /\ late' = {}
    /\ seen' = <<>>
    /\ stable_from' = 0
    /\ output_buffer' = <<>>
    /\ IF send_keys_raises
       THEN /\ result' = Returned("command", "RuntimeError",
                                  <<"Terminal not initialized">>, 0, n, cmd, t)
            /\ UNCHANGED << ptyIn, pc, callVars >>
       ELSE \E w \in os_write_outcomes :
            IF w = "OSError"
            THEN /\ result' = Returned("command", "OSError", <<"Input/output error">>, 0,
                                       n, cmd, t)
                 /\ UNCHANGED << ptyIn, pc, callVars >>
            ELSE /\ ptyIn' = Append(ptyIn, Written(send_keys_data(cmd, TRUE), n))
                 /\ pc' = "polling"
                 /\ command' = cmd
                 /\ timeout' = t
                 /\ poll_count' = 0
                 /\ last_output' = <<>>
                 /\ last_change' = 0
                 /\ result' = NoResult
    /\ cwd' = "work_dir"
    /\ UNCHANGED << sessionVars, backendVars, toolVars, ptyOut, pendingSig, shell, job,
                    outCount, lastExit >>

\* _execute_command up to its loop: clear the buffer, send the command
_execute_command(cmd, t) ==
    LET n == calls + 1 IN
    /\ calls' = n
    /\ cmdStatus' = None
    /\ afterInterrupt' = IF afterInterrupt = 1 THEN 2 ELSE 0
    /\ IF cmd = <<>> /\ softCall > 0 /\ softCall = calls
       THEN UNCHANGED << softCall, late >>
       ELSE softCall' = 0 /\ late' = {}
    /\ seen' = <<>>
    /\ stable_from' = 0
    /\ output_buffer' = <<>>
    /\ IF send_keys_raises
       THEN /\ result' = Returned("command", "RuntimeError",
                                  <<"Terminal not initialized">>, 0, n, cmd, t)
            /\ UNCHANGED << ptyIn, pc, callVars >>
       ELSE \E w \in os_write_outcomes :
            IF w = "OSError"
            THEN /\ result' = Returned("command", "OSError", <<"Input/output error">>, 0,
                                       n, cmd, t)
                 /\ UNCHANGED << ptyIn, pc, callVars >>
            ELSE /\ ptyIn' = Append(ptyIn, Written(send_keys_data(cmd, TRUE), n))
                 /\ pc' = "polling"
                 /\ command' = cmd
                 /\ timeout' = t
                 /\ poll_count' = 0
                 /\ last_output' = <<>>
                 /\ last_change' = 0
                 /\ result' = NoResult
    /\ UNCHANGED << sessionVars, backendVars, cwd, toolVars, ptyOut, pendingSig, shell,
                    job, outCount, lastExit >>

\* a dispatch that tested is_input before the special keys
execute_input_first(cmd, is_input, t) ==
    /\ pc = "idle"
    /\ s_initialized
    /\ ~s_closed
    /\ dispatched_input' = is_input
    /\ IF is_input THEN _handle_input(cmd)
       ELSE IF _is_special_key(cmd) THEN _handle_special_key(cmd)
       ELSE _execute_command(cmd, t)

\* execute: the dispatch
execute(cmd, is_input, t) ==
    /\ pc = "idle"
    /\ s_initialized
    /\ ~s_closed
    /\ dispatched_input' = is_input
    /\ IF _is_special_key(cmd) THEN _handle_special_key(cmd)
       ELSE IF is_input THEN _handle_input(cmd)
       ELSE _execute_command(cmd, t)

\* _get_command_output: drop the previously seen prefix and the command echo
_get_command_output(cmd, raw_output) ==
    LET output == IF prev_output # <<>> THEN removeprefix(raw_output, prev_output)
                  ELSE raw_output
    IN  rstrip(lstrip(removeprefix(lstrip(output), lstrip(cmd))))

\* the loop of _build_result: remove every matched block from the output
RECURSIVE remove_blocks(_, _, _)
remove_blocks(output, raw_output, ms) ==
    IF ms = <<>> THEN output
    ELSE remove_blocks(replace(output, group0(raw_output, Head(ms))), raw_output, Tail(ms))

\* _build_result: the output and the exit code of a completed command
_build_result(cmd, raw_output, ps1_matches) ==
    [output |-> strip(remove_blocks(_get_command_output(cmd, raw_output),
                                    raw_output, ps1_matches)),
     exit_code |-> from_ps1_match(raw_output, ps1_matches[Len(ps1_matches)])]

\* "if ps1_matches:" the snapshot holds a completion marker
Completed(output) == matches_ps1_metadata(output) # <<>>

\* the diagnostic branch taken every 20th poll without a match; it reads
\* CMD_OUTPUT_PS1_BEGIN, a name session.py never imports: NameError
LogBranchRaises(polls) == polls % LOG_EVERY_POLLS = 0

\* "timeout is not None and elapsed >= timeout"
HardTimeout(t, elapsed) == t # None /\ elapsed >= t

\* a no-change test that measured the window from the start of the call
SoftTimeout_since_start(elapsed, changed_at, window) == elapsed >= window

\* "elif current_time - last_change_time >= self.no_change_timeout_seconds"
SoftTimeout(elapsed, changed_at, window) == elapsed - changed_at >= window

\* What one iteration of the polling loop does with its snapshot.
PollOutcome(output, polls, t, lastOut, changed_at, window) ==
    LET elapsed == polls - 1 IN
    IF Completed(output) THEN "COMPLETE"
    ELSE IF LogBranchRaises(polls) THEN "NameError"
    ELSE IF HardTimeout(t, elapsed) THEN "HARD_TIMEOUT"
    ELSE IF output # lastOut THEN "CHANGED"
    ELSE IF SoftTimeout(elapsed, changed_at, window) THEN "SOFT_TIMEOUT"
    ELSE "SLEEP"

\* a timeout return that interrupted the job, as a kill-on-timeout would
timeout_return_interrupts == pendingSig' = interrupt_sends /\ UNCHANGED ptyIn

\* what a timeout return does to the backend: nothing
timeout_return_effect == UNCHANGED << pendingSig, ptyIn >>

\* One iteration of _execute_command's loop (after the sleep that precedes it,
\* for every iteration but the first).
Poll ==
    /\ pc = "polling"
    /\ LET output == read_screen
           polls == poll_count + 1
           outcome == PollOutcome(output, polls, timeout, last_output, last_change,
                                  no_change_timeout)
       IN
       CASE outcome = "COMPLETE" ->
              LET r == _build_result(command, output, matches_ps1_metadata(output)) IN
              /\ result' = Returned("command", "COMPLETE", r.output, r.exit_code, calls, command,
                                    timeout)
              /\ prev_output' = output
              /\ pc' = "idle"
              /\ IdleCall
              /\ UNCHANGED << pendingSig, ptyIn, softCall, late >>
         [] outcome = "NameError" ->
              /\ result' = Returned("command", "NameError", <<"NameError">>, 0, calls,
                                    command, timeout)
              /\ pc' = "idle"
              /\ IdleCall
              /\ UNCHANGED << prev_output, pendingSig, ptyIn, softCall, late >>
         [] outcome = "HARD_TIMEOUT" ->
              /\ result' = Returned("command", "HARD_TIMEOUT", output \o <<"[Command timed out]">>,
                                    STILL_RUNNING, calls, command, timeout)
              /\ pc' = "idle"
              /\ IdleCall
              /\ timeout_return_effect
              /\ UNCHANGED << prev_output, softCall, late >>
         [] outcome = "SOFT_TIMEOUT" ->
              /\ result' = Returned("command", "SOFT_TIMEOUT",
                                    output \o <<"TIMEOUT_MESSAGE_TEMPLATE">>,
                                    STILL_RUNNING, calls, command, timeout)
              /\ pc' = "idle"
              /\ IdleCall
              /\ timeout_return_effect
              /\ UNCHANGED prev_output
              /\ IF softCall > 0
                 THEN UNCHANGED << softCall, late >>
                 ELSE /\ softCall' = IF shell = "running" /\ job = calls /\ ptyOut = <<>>
                                     THEN calls ELSE 0
                      /\ late' = {}
         [] outcome = "CHANGED" ->
              /\ poll_count' = polls
              /\ last_output' = output
              /\ last_change' = polls - 1
              /\ UNCHANGED << prev_output, pendingSig, ptyIn, pc, command, timeout,
                              result, softCall, late >>
         [] OTHER ->
              /\ poll_count' = polls
              /\ UNCHANGED << prev_output, pendingSig, ptyIn, pc, command, timeout,
                              last_output, last_change, result, softCall, late >>
    /\ LET output == read_screen
           polls == poll_count + 1
       IN  IF PollOutcome(output, polls, timeout, last_output, last_change,
                          no_change_timeout) \in {"CHANGED", "SLEEP", "SOFT_TIMEOUT"}
           THEN /\ seen' = output
                /\ stable_from' = IF poll_count = 0 \/ output # seen THEN polls - 1
                                  ELSE stable_from
           ELSE /\ seen' = <<>>
                /\ stable_from' = 0
    /\ UNCHANGED << s_initialized, s_closed, no_change_timeout, backendVars, cwd, toolVars,
                    output_buffer, ptyOut, shellVars, calls, afterInterrupt,
                    dispatched_input >>

----------------------------------------------------------------------------
\* main.py: the terminal tool and get_terminal.

\* no terminal() call is in progress
ToolIdle == phase = "idle" /\ pc \in {"absent", "idle", "failed"}

\* a parameter check that reported the error and went on to reset
terminal_reset_with_input_closing ==
    /\ ToolIdle
    /\ result.kind # "ParameterError"
    /\ sessions < MaxSessions
    /\ result' = Returned("tool", "ParameterError",
                          <<"Error: Cannot use reset=True with is_input=True">>, 0, calls,
                          <<>>, None)
    /\ phase' = IF _terminal = "session" THEN "closing" ELSE "creating"
    /\ UNCHANGED << sessionVars, backendVars, cwd, _terminal, sessions, liveOld, openOld,
                    oldCwd, reclosed, output_buffer, ptyIn, ptyOut, pendingSig, shellVars,
                    pc, calls, callVars, historyVars >>

\* terminal(reset=True, is_input=True): the parameter check returns the error text
terminal_reset_with_input ==
    /\ ToolIdle
    /\ result.kind # "ParameterError"
    /\ result' = Returned("tool", "ParameterError",
                          <<"Error: Cannot use reset=True with is_input=True">>, 0, calls,
                          <<>>, None)
    /\ UNCHANGED << sessionVars, backendVars, cwd, toolVars, output_buffer, ptyIn, ptyOut,
                    pendingSig, shellVars, pc, calls, callVars, historyVars >>

\* a reset that dropped the session without closing it
terminal_reset_without_close ==
    /\ ToolIdle
    /\ sessions < MaxSessions
    /\ phase' = "creating"
    /\ _terminal' = "None"
    /\ UNCHANGED << sessionVars, backendVars, cwd, sessions, liveOld, openOld, oldCwd,
                    reclosed, output_buffer, ptyIn, ptyOut, pendingSig, shellVars, pc,
                    calls, callVars, result, historyVars >>

\* terminal(reset=True): "if _terminal:" close it first
terminal_reset ==
    /\ ToolIdle
    /\ sessions < MaxSessions
    /\ phase' = IF _terminal = "session" THEN "closing" ELSE "creating"
    /\ UNCHANGED << sessionVars, backendVars, cwd, _terminal, sessions, liveOld, openOld,
                    oldCwd, reclosed, output_buffer, ptyIn, ptyOut, pendingSig, shellVars,
                    pc, calls, callVars, result, historyVars >>

\* ... _terminal.close() has returned: "_terminal = None"
reset_forget ==
    /\ phase = "closing"
    /\ pc = "closed"
    /\ phase' = "creating"
    /\ _terminal' = "None"
    /\ UNCHANGED << sessionVars, backendVars, cwd, sessions, liveOld, openOld, oldCwd,
                    reclosed, output_buffer, ptyIn, ptyOut, pendingSig, shellVars, pc,
                    calls, callVars, result, historyVars >>

\* a get_terminal that handed the old shell over to the new session
get_terminal_keeping_shell ==
    /\ phase \in {"idle", "creating"}
    /\ pc \in {"absent", "closed"}
    /\ _terminal = "None" \/ s_closed
    /\ sessions < MaxSessions
    /\ _terminal' = "session"
    /\ sessions' = sessions + 1
    /\ oldCwd' = IF pc = "absent" THEN oldCwd ELSE cwd
    /\ s_initialized' = FALSE
    /\ s_closed' = FALSE
    /\ b_initialized' = FALSE
    /\ b_closed' = FALSE
    /\ pc' = "new"
    /\ UNCHANGED << prev_output, no_change_timeout, process, fd, reader, maxlen, cwd,
                    phase, liveOld, openOld, reclosed, output_buffer, ptyIn, ptyOut,
                    pendingSig, shellVars, calls, callVars, result, historyVars >>

\* get_terminal, "if _terminal is None or _terminal.closed": construct a
\* TerminalSession (and with it a SubprocessTerminal) and bind it to _terminal;
\* initialize() follows.  The replaced session, if any, is left as it is.
get_terminal_create ==
    /\ phase \in {"idle", "creating"}
    /\ pc \notin {"new", "booting", "polling", "escalating", "closing", "joining"}
    /\ _terminal = "None" \/ s_closed
    /\ sessions < MaxSessions
    /\ _terminal' = "session"
    /\ sessions' = sessions + 1
    /\ liveOld' = IF process = "alive" THEN liveOld + 1 ELSE liveOld
    /\ openOld' = IF pc # "absent" /\ ~s_closed THEN openOld + 1 ELSE openOld
    /\ oldCwd' = IF pc = "absent" THEN oldCwd ELSE cwd
    /\ s_initialized' = FALSE
    /\ s_closed' = FALSE
    /\ prev_output' = <<>>
    /\ no_change_timeout' = NO_CHANGE_TIMEOUT_TICKS
    /\ b_initialized' = FALSE
    /\ b_closed' = FALSE
    /\ process' = "none"
    /\ fd' = "none"
    /\ reader' = "none"
    /\ output_buffer' = <<>>
    /\ ptyIn' = <<>>
    /\ ptyOut' = <<>>
    /\ pendingSig' = 0
    /\ shell' = "none"
    /\ job' = 0
    /\ outCount' = 0
    /\ lastExit' = 0
    /\ cwd' = "work_dir"
    /\ cmdStatus' = None
    /\ pc' = "new"
    /\ afterInterrupt' = 0
    /\ softCall' = 0
    /\ dispatched_input' = FALSE
    /\ seen' = <<>>
    /\ stable_from' = 0
    /\ late' = {}
    /\ UNCHANGED << maxlen, phase, reclosed, calls, callVars, result >>

\* terminal(reset=True) after its get_terminal(): with an empty command it
\* returns the reset message; with a command it goes on as a call without
\* reset does; when initialize raised, the tool returns the error
reset_return ==
    /\ phase = "creating"
    /\ pc \in {"idle", "failed"}
    /\ phase' = "idle"
    /\ \E empty \in BOOLEAN :
          IF pc = "idle" /\ empty
          THEN result' = Returned("tool", "RESET",
                                  <<"Terminal reset successfully. All previous state lost.">>,
                                  0, calls, <<>>, None)
          ELSE UNCHANGED result
    /\ UNCHANGED << sessionVars, backendVars, cwd, _terminal, sessions, liveOld, openOld,
                    oldCwd, reclosed, output_buffer, ptyIn, ptyOut, pendingSig, shellVars,
                    pc, calls, callVars, historyVars >>

\* what a call ended with when it raised instead of returning a dict
ExceptionKinds == {"RuntimeError", "NameError", "OSError"}

\* a tool body without its try / except
caught_nothing(kind) == FALSE

\* "except Exception as e": every exception of the session is an Exception
caught(kind) == kind \in ExceptionKinds

\* what terminal() hands to its caller for the outcome res of its body: the
\* text, or the exception when nothing caught it
terminal_returns(res) ==
    IF res.kind \in ExceptionKinds
    THEN IF caught(res.kind) THEN [raised |-> FALSE, text |-> <<"Error: ">> \o res.output]
         ELSE [raised |-> TRUE, text |-> <<>>]
    ELSE [raised |-> FALSE, text |-> res.output]

----------------------------------------------------------------------------
\* The fields of a TerminalSession just constructed with one of the given
\* no-change windows and buffer capacities, and of what it does not have yet.
FreshSession(windows, caps) ==
    /\ maxlen \in caps
    /\ s_initialized = FALSE
    /\ s_closed = FALSE
    /\ prev_output = <<>>
    /\ no_change_timeout \in windows
    /\ b_initialized = FALSE
    /\ b_closed = FALSE
    /\ process = "none"
    /\ fd = "none"
    /\ reader = "none"
    /\ output_buffer = <<>>
    /\ ptyIn = <<>>
    /\ ptyOut = <<>>
    /\ pendingSig = 0
    /\ shell = "none"
    /\ job = 0
    /\ outCount = 0
    /\ lastExit = 0
    /\ cwd = "work_dir"
    /\ cmdStatus = None
    /\ calls = 0
    /\ command = <<>>
    /\ timeout = None
    /\ poll_count = 0
    /\ last_output = <<>>
    /\ last_change = 0
    /\ result = NoResult
    /\ afterInterrupt = 0
    /\ softCall = 0
    /\ dispatched_input = FALSE
    /\ seen = <<>>
    /\ stable_from = 0
    /\ late = {}
    /\ phase = "idle"
    /\ liveOld = 0
    /\ openOld = 0
    /\ oldCwd = "none"
    /\ reclosed = 0

\* The state after TerminalSession(...) is constructed.
InitBuffer(windows, caps) ==
    /\ FreshSession(windows, caps)
    /\ pc = "new"
    /\ _terminal = "session"
    /\ sessions = 1

\* The state after main.py is loaded: _terminal is None, no session exists.
InitTool ==
    /\ FreshSession({NO_CHANGE_TIMEOUT_TICKS}, {BufferCap})
    /\ pc = "absent"
    /\ _terminal = "None"
    /\ sessions = 0

\* ... with the deque the backend constructs
InitWith(windows) == InitBuffer(windows, {BufferCap})

\* The caller: at most maxCalls execute calls, with commands, the is_input
\* flag and timeouts drawn from the given sets.
Controller(cmds, inputs, touts, maxCalls) ==
    \/ initialize_start
    \/ initialize_finish
    \/ calls < maxCalls /\ execute_refused
    \/ \E cmd \in cmds, is_input \in inputs, t \in touts :
          calls < maxCalls /\ execute(cmd, is_input, t)
    \/ Poll

\* The reader thread.
Reader ==
    \/ _read_output
    \/ _read_output_error

\* The shell and a foreground job that prints what lines allows and does not
\* read its input.
Shell(lines) ==
    \/ ShellRead
    \/ JobOutput(lines)
    \/ JobExit
    \/ SigInt

\* A session with a 1 s no-change window, any calls.
Init == InitWith({2})
Next == Controller(Commands, BOOLEAN, Timeouts, MaxCalls) \/ Reader \/ Shell(PlainLines) \/ JobRead
Spec == Init /\ [][Next]_vars

\* One call followed closely.
NextFew == Controller(Commands, BOOLEAN, Timeouts, FewCalls) \/ Reader \/ Shell(PlainLines)
SpecFew == Init /\ [][NextFew]_vars

\* A session with the default no-change window, as main.py constructs it.
InitDefault == InitWith({NO_CHANGE_TIMEOUT_TICKS})
SpecDefault == InitDefault /\ [][NextFew]_vars

\* A command, C-c, a command: calls that do not wait (timeout 0).
NextInterrupt ==
    \/ Controller({<<"a">>, <<"C", "-", "c">>}, {FALSE}, {0}, InterruptCalls)
    \/ _read_output
    \/ Shell(PlainLines)
    \/ JobRead
SpecInterrupt == Init /\ [][NextInterrupt]_vars

\* Only is_input calls with ordinary text.
NextTyping ==
    \/ initialize_start
    \/ initialize_finish
    \/ \E cmd \in {<<>>, <<"a">>} : calls < MaxCalls /\ execute(cmd, TRUE, None)
    \/ _read_output
    \/ ShellRead
    \/ JobOutput(PlainLines)
    \/ JobExit
    \/ JobRead
SpecInput == Init /\ [][NextTyping]_vars

\* One call whose job may print the literal markers.
NextForge == Controller(Commands, BOOLEAN, Timeouts, FewCalls) \/ Reader \/ Shell(MarkerLines)
SpecForge == Init /\ [][NextForge]_vars

\* One command on a backend whose buffer holds SmallCap chunks.
InitEvict == InitBuffer({2}, {SmallCap})
NextEvict ==
    \/ initialize_start
    \/ initialize_finish
    \/ \E t \in {None, 0} : calls < FewCalls /\ execute(<<"a">>, FALSE, t)
    \/ Poll
    \/ _read_output
    \/ ShellRead
    \/ JobOutput(PlainLines)
    \/ JobExit
SpecEvict == InitEvict /\ [][NextEvict]_vars

\* One call whose job may print the literal markers, on a session with the
\* default no-change window.
SpecForgeDefault == InitDefault /\ [][NextForge]_vars

\* Commands that change and print the shell's directory, each call left to
\* finish or to time out.
NextShellState ==
    \/ initialize_start
    \/ initialize_finish
    \/ calls < MaxCalls /\ execute(<<"a">>, FALSE, None)
    \/ Poll
    \/ _read_output
    \/ ShellRead
    \/ JobOutput(PwdLines)
    \/ JobChdir
    \/ JobExit
SpecShellState == Init /\ [][NextShellState]_vars

\* One command, then close(), with the reader followed statement by statement.
NextClose ==
    \/ initialize_start
    \/ initialize_finish
    \/ calls < FewCalls /\ execute(<<"a">>, FALSE, 0)
    \/ Poll
    \/ _read_output_top
    \/ _read_output_select
    \/ ShellRead
    \/ JobOutput(PlainLines)
    \/ JobExit
    \/ close_terminate
    \/ close_kill
    \/ close_release
    \/ close_join
SpecClose == Init /\ [][NextClose]_vars

\* A session that is closed, and closed again.
NextCloseAgain ==
    \/ initialize_start
    \/ initialize_finish
    \/ calls < FewCalls /\ execute(<<"a">>, FALSE, 0)
    \/ Poll
    \/ _read_output
    \/ ShellRead
    \/ JobOutput(PlainLines)
    \/ JobExit
    \/ close_terminate
    \/ close_kill
    \/ close_release
    \/ close_join
    \/ close_uninitialized
    \/ close_again
SpecCloseAgain == Init /\ [][NextCloseAgain]_vars

\* The terminal tool: calls with and without reset, each command given
\* timeout 0, in an environment where the shell may fail to resolve.
NextTool ==
    \/ terminal_reset_with_input
    \/ terminal_reset
    \/ phase = "closing" /\ close_terminate
    \/ close_kill
    \/ close_release
    \/ close_join
    \/ phase = "closing" /\ close_uninitialized
    \/ reset_forget
    \/ get_terminal_create
    \/ initialize_start
    \/ initialize_finish
    \/ initialize_fails
    \/ reset_return
    \/ phase = "idle" /\ calls < MaxCalls /\ execute(<<"a">>, FALSE, 0)
    \/ phase = "idle" /\ pc = "failed" /\ calls < MaxCalls /\ execute_refused
    \/ Poll
    \/ _read_output
    \/ ShellRead
    \/ JobOutput(PwdLines)
    \/ JobChdir
    \/ JobExit
SpecTool == InitTool /\ [][NextTool]_vars

\* One command with a 9.5 s timeout on a session with a 9 s no-change window:
\* the hard deadline and the end of the window can meet in one poll.
InitOrder == InitWith({18})
NextOrder ==
    \/ initialize_start
    \/ initialize_finish
    \/ calls < FewCalls /\ execute(<<"a">>, FALSE, 19)
    \/ Poll
    \/ _read_output
    \/ ShellRead
    \/ JobOutput(PlainLines)
    \/ JobExit
SpecOrder == InitOrder /\ [][NextOrder]_vars

\* Calls made on the backend and on a session in any state of its life:
\* before initialize, while it runs, after the shell has exited, after close.
NextBackend ==
    \/ initialize_start
    \/ initialize_finish
    \/ \E text \in KeyTexts, enter \in BOOLEAN :
          calls < BackendCalls /\ send_keys(text, enter)
    \/ calls < BackendCalls /\ interrupt
    \/ calls < BackendCalls /\ execute_refused
    \/ close_terminate
    \/ close_kill
    \/ close_release
    \/ close_join
    \/ close_uninitialized
    \/ _read_output
    \/ ShellRead
    \/ JobOutput(PlainLines)
    \/ JobExit
    \/ SigInt
SpecBackend == Init /\ [][NextBackend]_vars

\* One call, with commands around the special keys and either is_input.
NextDispatch ==
    \/ Controller(DispatchCommands, BOOLEAN, {0}, FewCalls)
    \/ Reader
    \/ Shell(PlainLines)
SpecDispatch == Init /\ [][NextDispatch]_vars

----------------------------------------------------------------------------
\* Claims.

Occurs(tok, s) == \E i \in 1..Len(s) : s[i] = tok

\* C1: whenever a normal execute(command) returns a completed result, its
\* exit_code is the exit status the shell produced for that same command.
C1_ExitCodeOfSameCommand ==
    (result.kind = "COMPLETE" /\ result.cmd # <<>>) => result.exit_code = cmdStatus

\* C2: a normal call with an explicit timeout T that returns before its command
\* completed returns the hard-timeout result (exit_code -1, the output with the
\* timed-out annotation), and leaves the session initialized and not closed.
C2_HardTimeoutForEveryT ==
    (result.path = "command" /\ result.t # None /\ result.kind # "COMPLETE")
        => /\ result.kind = "HARD_TIMEOUT"
           /\ result.exit_code = -1
           /\ EndsWith(result.output, "[Command timed out]")
           /\ s_initialized
           /\ ~s_closed

\* C3: a normal call without timeout that returns before a completion marker
\* appeared returns the soft-timeout result (exit_code -1, the output with the
\* continuation guidance) once the snapshot stayed unchanged for the window.
C3_SoftTimeoutAfterWindow ==
    (result.path = "command" /\ result.t = None /\ result.kind # "COMPLETE")
        => /\ result.kind = "SOFT_TIMEOUT"
           /\ result.exit_code = -1
           /\ EndsWith(result.output, "TIMEOUT_MESSAGE_TEMPLATE")

\* C4: a normal execute call ends with exactly one of COMPLETE, HARD_TIMEOUT,
\* SOFT_TIMEOUT; it never raises.
C4_ReturnsOneOfThreeOutcomes ==
    result.path = "command" => result.kind \in {"COMPLETE", "HARD_TIMEOUT", "SOFT_TIMEOUT"}

\* C5: the step on which a call returns HARD_TIMEOUT or SOFT_TIMEOUT sends no
\* signal, writes nothing to the terminal, and leaves the backend's process,
\* descriptor, reader thread and flags (and the session's flags) as they were.
C5_TimeoutLeavesBackendAlone ==
    [][ (pc = "polling" /\ result'.kind \in {"HARD_TIMEOUT", "SOFT_TIMEOUT"})
            => UNCHANGED << pendingSig, ptyIn, backendVars, s_initialized, s_closed,
                            shell, job >> ]_vars

\* C5, its case: a call returned a soft timeout and the job it started is
\* still running on a live backend.
C5_TimedOutJobStillRunning ==
    /\ result.kind = "SOFT_TIMEOUT"
    /\ shell = "running"
    /\ job = result.idx
    /\ process = "alive"
    /\ reader = "running"

\* C6: execute('C-c') returns exit_code 130, and a normal command executed
\* right after a C-c that was sent while a job was running does not report
\* the interrupted job's 130 as its own completion.
C6_InterruptThenOwnCompletion ==
    /\ (result.kind = "SPECIAL" /\ strip(result.cmd) = <<"C", "-", "c">>)
          => result.exit_code = 130
    /\ (afterInterrupt = 2 /\ result.kind = "COMPLETE" /\ result.cmd # <<>>
          /\ result.exit_code = 130)
          => cmdStatus = 130

C8_LaterOutputObserved ==
    (result.path = "command" /\ result.cmd = <<>> /\ softCall > 0
        /\ result.idx = softCall + 1)
        => \A tok \in late : Occurs(tok, result.output)

\* C9: a normal call with an explicit timeout never returns the soft-timeout
\* result.
C9_NoSoftTimeoutWithExplicitTimeout ==
    (result.path = "command" /\ result.t # None) => result.kind # "SOFT_TIMEOUT"

\* a marker block printed by the shell's prompt
HasPromptBlock(raw) ==
    \E i \in 1..(Len(raw) - 2) :
        raw[i] = "B" /\ raw[i + 1] \in JsonTokens /\ raw[i + 2] = "E"

\* the text of a complete block, whoever printed it: begin marker, a payload
\* that parses, end marker
HasWellFormedBlock(raw) ==
    \E i \in 1..Len(raw) : \E k \in (i + 1)..Len(raw) :
        /\ Txt(raw[i]) = "B"
        /\ Txt(raw[k]) = "E"
        /\ PayloadParses(TxtSeq(SubSeq(raw, i + 1, k - 1)))

\* C10 as stated: a call is reported completed only when the buffer holds a
\* marker block printed by the shell's prompt, whatever marker text the job
\* itself printed.
C10_OnlyPromptBlocksComplete ==
    (result.kind = "COMPLETE" /\ result.idx = calls /\ pc = "idle")
        => HasPromptBlock(Flatten(output_buffer))

\* C10 amended: a call is reported completed only when the buffer holds a
\* complete well-formed block; the begin marker alone, the end marker alone,
\* or both without a parsable payload between them do not complete it.
C10_CompletionNeedsWellFormedBlock ==
    (result.kind = "COMPLETE" /\ result.idx = calls /\ pc = "idle")
        => HasWellFormedBlock(Flatten(output_buffer))

\* C10, its case: the running job printed marker text and the call returned
\* a soft timeout, not a completion.
C10_MarkerTextNotCompletion ==
    /\ result.kind = "SOFT_TIMEOUT"
    /\ shell = "running"
    /\ job = result.idx
    /\ \E i \in 1..Len(Flatten(output_buffer)) : Flatten(output_buffer)[i] \in {"b", "e"}

\* C11: the first execute after initialize() returns a completed result only
\* once its own command has finished: neither the echo of the prompt
\* installation nor the first customized prompt's block completes it.
C11_InstallNotTakenAsCompletion ==
    (calls = 1 /\ result.idx = 1 /\ result.kind = "COMPLETE" /\ result.cmd # <<>>)
        => cmdStatus # None

\* the newest chunks of all, as many as the buffer holds, in order
NewestOf(all) ==
    IF Len(all) <= maxlen THEN all ELSE SubSeq(all, Len(all) - maxlen + 1, Len(all))

\* C12: the buffer changes only by the reader appending one whole chunk at its
\* end (the oldest chunk leaving when full) or by the controller clearing it,
\* and the snapshot a poll returns is the in-order concatenation of the chunks
\* then in the buffer.
C12_SnapshotIsWholeChunksInOrder ==
    [][ /\ output_buffer' # output_buffer
            => \/ /\ output_buffer' = <<>>
                  /\ calls' = calls + 1 \/ pc = "booting"
               \/ /\ reader = "running"
                  /\ ptyOut # <<>>
                  /\ output_buffer' = NewestOf(Append(output_buffer, os_read(ptyOut)))
                  /\ UNCHANGED << pc, calls, result >>
        /\ (pc = "polling" /\ result'.kind \in {"HARD_TIMEOUT", "SOFT_TIMEOUT"})
            => \E note \in {"[Command timed out]", "TIMEOUT_MESSAGE_TEMPLATE"} :
                  result'.output = TxtSeq(Flatten(output_buffer)) \o <<note>> ]_vars

\* C12, its case: a poll returned a snapshot made of the two chunks the
\* reader appended, while the controller was polling, since the call's clear.
C12_SnapshotOfTwoChunks ==
    /\ result.kind = "SOFT_TIMEOUT"
    /\ Len(output_buffer) = 2
    /\ result.output = <<"a", "nl", "o1", "TIMEOUT_MESSAGE_TEMPLATE">>

\* C13: the buffer never holds more chunks than its maxlen, each chunk is one
\* read of at most READ_SIZE; an append to a full buffer drops the oldest chunk;
\* and once the finished command's prompt has been read the snapshot holds a
\* completion marker, whatever was evicted.
C13_BufferBoundedNewestKept ==
    [][ /\ Len(output_buffer') <= maxlen
        /\ \A i \in 1..Len(output_buffer') : Len(output_buffer'[i]) \in 1..READ_SIZE
        /\ (Len(output_buffer) = maxlen /\ output_buffer' # output_buffer
                /\ output_buffer' # <<>>)
            => output_buffer' = Append(Tail(output_buffer), os_read(ptyOut))
        /\ (pc' = "polling" /\ cmdStatus' # None /\ ptyOut' = <<>>)
            => Completed(TxtSeq(Flatten(output_buffer'))) ]_vars

\* C13, its case: a command whose output exceeded the buffer completed: the
\* echo of the command was evicted and the completion was still detected.
C13_CompletedAfterEviction ==
    /\ result.kind = "COMPLETE"
    /\ cmdStatus # None
    /\ result.exit_code = cmdStatus
    /\ Len(output_buffer) = maxlen
    /\ Occurs("o1", read_screen)
    /\ ~Occurs("a", read_screen)

\* C14: in close() the reader is joined before the descriptor is released:
\* once the descriptor is closed the reader is no longer running, and it never
\* selects on or reads a closed descriptor.
C14_ReaderJoinedBeforeRelease ==
    /\ reader # "faulted"
    /\ (b_closed /\ fd = "none") => reader \notin {"running", "selecting"}

\* C15: an execute made after the reader ended on an I/O error fails at once
\* with the session's not-initialized/closed error; it does not send the
\* command and poll.
C15_DeadBackendRefused ==
    [][ (calls' = calls + 1 /\ reader = "exited" /\ result'.path \in {"command", "none"})
            => (pc' # "polling" /\ result'.kind = "RuntimeError") ]_vars

\* the snapshot holds a marker block, and no block whose payload parses
MalformedOnly(output) ==
    /\ CMD_OUTPUT_METADATA_PS1_REGEX(output) # <<>>
    /\ matches_ps1_metadata(output) = <<>>

\* C16: a poll whose snapshot holds only malformed marker blocks does not end
\* the call with a result or an exception: the call goes on polling, unless a
\* timeout ends it.
C16_MalformedBlockPollsAgain ==
    [][ (pc = "polling" /\ MalformedOnly(read_screen))
            => \/ pc' = "polling"
               \/ result'.kind \in {"HARD_TIMEOUT", "SOFT_TIMEOUT"} ]_vars

\* sub occurs in s as a contiguous run of text
Contains(s, sub) ==
    \E i \in 1..(Len(s) - Len(sub) + 1) : SubSeq(s, i, i + Len(sub) - 1) = sub

\* C17: when a poll returns COMPLETE, the exit code is that of the last marker
\* block of the snapshot, and the returned output contains none of the matched
\* blocks and not the echoed command text.
C17_LastBlockAndCleanOutput ==
    [][ (pc = "polling" /\ result' # result /\ result'.kind = "COMPLETE")
            => LET raw == read_screen
                   ms  == matches_ps1_metadata(raw)
               IN  /\ result'.exit_code = from_ps1_match(raw, ms[Len(ms)])
                   /\ \A i \in 1..Len(ms) : ~Contains(result'.output, group0(raw, ms[i]))
                   /\ command # <<>> => ~Contains(result'.output, command) ]_vars

\* main.py: "if result.get(key):" the key is there with a non-empty value
Truthy(v) == v \notin {Absent, "None", ""}

\* main.py: the annotations the terminal tool appends to the output
terminal_annotations(res) ==
    (IF Truthy(res.working_dir) THEN {"Current working directory"} ELSE {})
        \cup (IF Truthy(res.py_interpreter) THEN {"Python interpreter"} ELSE {})

\* C18: the result returned for a command that completed carries the working directory parsed
\* from the final marker block of the snapshot and an interpreter path, and the
\* tool text has both annotations.
C18_ResultCarriesPromptState ==
    [][ (pc = "polling" /\ cmdStatus # None /\ result' # result /\ result'.kind = "COMPLETE")
            => LET raw == read_screen
                   ms  == matches_ps1_metadata(raw)
               IN  /\ result'.working_dir = from_ps1_match_working_dir(raw, ms[Len(ms)])
                   /\ Truthy(result'.py_interpreter)
                   /\ terminal_annotations(result')
                        = {"Current working directory", "Python interpreter"} ]_vars

\* the shell side has not yet read what call n wrote
Unread(n) == \E i \in 1..Len(ptyIn) : ptyIn[i].c = n

\* text the shell side can have produced for the command of call n: nothing
\* while the command is unread, else its echo and the lines of a job
ProducedFor(n, cmd) ==
    IF Unread(n) THEN {}
    ELSE {cmd[i] : i \in 1..Len(cmd)} \cup {"nl"} \cup OutTokens \cup Dirs

\* C19: the output returned with COMPLETE for a command holds only text the
\* shell side produced for that command, nothing left over from before it.
C19_OnlyOwnBytesReturned ==
    [][ (pc = "polling" /\ command # <<>> /\ result' # result /\ result'.kind = "COMPLETE")
            => \A i \in 1..Len(result'.output) :
                  result'.output[i] \in ProducedFor(calls, command) ]_vars

\* C20: from initialization on, with no close, no step replaces the backend
\* (its descriptor, its reader thread) or the shell process, and the shell's
\* directory changes only when a foreground job changes it, never when a call
\* is made or polls; a line a job prints of it is the directory the shell is in.
C20_ShellStateKeptAcrossCalls ==
    [][ (s_initialized /\ ~s_closed)
            => /\ process' = process
               /\ fd' = fd
               /\ reader' = reader
               /\ b_initialized' /\ ~b_closed' /\ s_initialized' /\ ~s_closed'
               /\ cwd' # cwd => (shell = "running" /\ shell' = "idle" /\ calls' = calls
                                 /\ pc' = pc)
               /\ \A dir \in Dirs : ptyOut' = ptyOut \o <<dir>> => dir = cwd ]_vars

\* the second call returned the directory the first call's cd had set
C20_LaterCommandSeesDirectory ==
    /\ result.kind = "COMPLETE"
    /\ result.idx = 2
    /\ cmdStatus # None
    /\ cwd = "dir2"
    /\ result.output = <<"dir2">>

\* C23: a call with a special key returns at once with the key's fixed status
\* string and exit code (C-c 130 after signalling the process group of a live
\* shell, C-z 147 and C-d 0 after writing the control byte), leaves the buffer
\* as it is and does not start polling.
C23_SpecialKeyImmediateResult ==
    [][ (calls' = calls + 1 /\ result'.path = "special"
            /\ upper(strip(result'.cmd)[3]) \in {"C", "Z", "D"})
            => LET key == upper(strip(result'.cmd)[3]) IN
               /\ result'.kind = "SPECIAL"
               /\ pc' = "idle"
               /\ output_buffer' = output_buffer
               /\ key = "C" => /\ result'.exit_code = 130
                               /\ result'.output = <<"Process interrupted (Ctrl+C)">>
                               /\ process = "alive" => pendingSig' = pendingSig + 1
               /\ key = "Z" => /\ result'.exit_code = 147
                               /\ result'.output = <<"Process suspended (Ctrl+Z)">>
                               /\ ptyIn' = Append(ptyIn, Written(<<"^Z">>, calls'))
               /\ key = "D" => /\ result'.exit_code = 0
                               /\ result'.output = <<"EOF sent (Ctrl+D)">>
                               /\ ptyIn' = Append(ptyIn, Written(<<"^D">>, calls')) ]_vars

\* main.py: the status line the terminal tool appends after the annotations
terminal_status(res) ==
    IF res.exit_code # STILL_RUNNING
    THEN IF res.exit_code = 0 THEN "[Command completed with exit code]"
         ELSE "[Command failed with exit code]"
    ELSE "[Process still running (soft timeout)]"

\* the status lines the tool can append
StatusLines ==
    { "[Command completed with exit code]", "[Command failed with exit code]",
      "[Process still running (soft timeout)]" }

\* main.py: the lines of the tool's text for a returned dict: the output, the
\* annotations, the status line
terminal_format(res) ==
    [output |-> res.output, annotations |-> terminal_annotations(res),
     status |-> terminal_status(res)]

\* C24: the tool's text for a hard-timeout result is the accumulated output
\* with the timed-out annotation and carries none of the status lines.
C24_HardTimeoutTextHasNoStatus ==
    result.kind = "HARD_TIMEOUT"
        => /\ result.output[Len(result.output)] = "[Command timed out]"
           /\ terminal_format(result).status \notin StatusLines

\* the snapshot a timeout result was built from: its output without the note
TimedOutSnapshot(res) == SubSeq(res.output, 1, Len(res.output) - 1)

\* C30: when execute('') follows a command's call that timed out, what reached the
\* buffer after that call returned is still in the buffer the new call polls.
C30_OutputBetweenCallsKept ==
    [][ (pc = "idle" /\ pc' = "polling" /\ command' = <<>> /\ result.idx = calls
            /\ result.cmd # <<>> /\ result.kind \in {"HARD_TIMEOUT", "SOFT_TIMEOUT"}
            /\ StartsWith(read_screen, TimedOutSnapshot(result)))
            => Contains(read_screen', removeprefix(read_screen, TimedOutSnapshot(result)))
       ]_vars

C22_ResetWithInputRejected ==
    [][ (result' # result /\ result'.kind = "ParameterError")
            => /\ result'.output = <<"Error: Cannot use reset=True with is_input=True">>
               /\ UNCHANGED << sessionVars, backendVars, cwd, toolVars, output_buffer,
                               ptyIn, ptyOut, pendingSig, shellVars, pc, calls, callVars,
                               historyVars >> ]_vars

\* the error text was returned while a session with a live shell existed
C22_RejectedWithLiveSession ==
    /\ result.kind = "ParameterError"
    /\ _terminal = "session"
    /\ s_initialized /\ ~s_closed
    /\ process = "alive"
    /\ phase = "idle"

\* C25: close() on an instance that is already closed changes nothing (no
\* signal, no descriptor closed, no join), and close() on an instance that was
\* never initialized only sets the closed flags.
C25_CloseIdempotent ==
    [][ /\ reclosed' # reclosed
              => UNCHANGED << sessionVars, backendVars, cwd, output_buffer, ptyIn, ptyOut,
                              pendingSig, shellVars, pc, calls, callVars, result,
                              historyVars >>
        /\ (pc = "new" /\ pc' = "closed")
              => /\ s_closed' /\ b_closed'
                 /\ UNCHANGED << s_initialized, b_initialized, process, fd, reader,
                                 output_buffer, ptyIn, ptyOut, pendingSig, shellVars >>
       ]_vars

\* an initialized session was closed, and close() was called twice more
C25_ClosedThreeTimes ==
    /\ reclosed = 2
    /\ s_initialized
    /\ s_closed /\ b_closed
    /\ process = "exited"
    /\ fd = "none"

\* C26: when initialize finds no usable shell it raises RuntimeError with no
\* pseudoterminal allocated, no process and no reader started, and session and
\* backend still not initialized.
C26_FailedInitializeAllocatesNothing ==
    [][ (pc = "new" /\ pc' = "failed")
            => /\ result'.kind = "RuntimeError"
               /\ fd' = "none" /\ process' = "none" /\ reader' = "none"
               /\ shell' = "none" /\ ptyIn' = <<>>
               /\ ~s_initialized' /\ ~b_initialized' ]_vars

\* initialize raised in the session a reset had constructed
C26_InitializeRaised ==
    /\ pc = "failed"
    /\ result.kind = "RuntimeError"
    /\ result.path = "initialize"
    /\ sessions = 2
    /\ fd = "none" /\ process = "none"

\* C27: no session was still open, and no shell process of a replaced session
\* still alive, when its successor was constructed: at most one session that
\* is not closed, and never two live shells.
C27_OneLiveSession ==
    /\ openOld = 0
    /\ liveOld = 0
    /\ _terminal = "None" => (pc = "absent" \/ s_closed)

\* a second session has its shell running
C27_SecondShellAlive ==
    /\ sessions = 2
    /\ oldCwd # "none"
    /\ process = "alive"
    /\ s_initialized

C29_GetTerminalReturnsInitialized ==
    [][ calls' = calls + 1 => (_terminal = "session" /\ s_initialized /\ ~s_closed) ]_vars

\* C31: an execute('') call writes nothing to the pseudoterminal: what the
\* shell side has still to read is the same after the call started polling.
C31_EmptyCommandWritesNothing ==
    [][ (pc = "idle" /\ pc' = "polling" /\ command' = <<>>) => ptyIn' = ptyIn ]_vars

\* the output _build_result gives for a command and a snapshot in a session
\* that has completed no command before
output_in_fresh_session(cmd, raw_output) ==
    strip(remove_blocks(rstrip(lstrip(removeprefix(lstrip(raw_output), lstrip(cmd)))),
                        raw_output, matches_ps1_metadata(raw_output)))

\* C32: the output of a completed command is a function of the command and
\* its snapshot: it is what a session that completed nothing before returns
\* for them.
C32_OutputFromOwnSnapshot ==
    [][ (pc = "polling" /\ result'.kind = "COMPLETE")
            => result'.output = output_in_fresh_session(command, read_screen) ]_vars

\* C33: a poll whose snapshot holds a complete marker block returns COMPLETE,
\* whatever the elapsed time; a poll without one at which both the hard
\* deadline has passed and the snapshot has been unchanged for the window
\* returns HARD_TIMEOUT.
C33_ChecksInOrder ==
    [][ (pc = "polling" /\ (pc' = "idle" \/ poll_count' # poll_count))
            => /\ Completed(read_screen) => result'.kind = "COMPLETE"
               /\ (/\ ~Completed(read_screen)
                   /\ HardTimeout(timeout, poll_count)
                   /\ read_screen = last_output
                   /\ SoftTimeout(poll_count, last_change, no_change_timeout))
                     => result'.kind = "HARD_TIMEOUT" ]_vars

\* C34: a soft timeout is returned only by a poll that reads the snapshot
\* every poll has read for at least the no-change window; a poll that read a
\* different snapshot started the window again at its own time.
C34_SoftTimeoutAfterStableWindow ==
    [][ (pc = "polling" /\ result'.kind = "SOFT_TIMEOUT")
            => /\ read_screen = seen
               /\ stable_from' = stable_from
               /\ poll_count - stable_from >= no_change_timeout ]_vars

\* a soft timeout returned after the snapshot had changed during the call
C34_SoftTimeoutAfterRestart ==
    /\ result.kind = "SOFT_TIMEOUT"
    /\ result.t = None
    /\ stable_from > 0
    /\ seen # <<>>

\* C35: execute on a session that is not initialized, or closed, raises with
\* the message for that state, writes nothing and leaves the buffer alone;
\* send_keys on a backend that is not initialized or has no descriptor raises
\* 'Terminal not initialized' and writes nothing.
C35_RefusedCallsWriteNothing ==
    [][ calls' = calls + 1
            => /\ result'.path = "refused"
                     => /\ result'.kind = "RuntimeError"
                        /\ result'.output = IF ~s_initialized
                                            THEN <<"Terminal session not initialized">>
                                            ELSE <<"Terminal session is closed">>
                        /\ ptyIn' = ptyIn
                        /\ output_buffer' = output_buffer
               /\ (/\ result'.path \in {"send_keys", "send_keys_enter"}
                   /\ (~b_initialized \/ fd = "none"))
                     => /\ result'.kind = "RuntimeError"
                        /\ result'.output = <<"Terminal not initialized">>
                        /\ ptyIn' = ptyIn ]_vars

\* execute was refused on a session that had been initialized and closed
C35_ExecuteAfterClose ==
    /\ result.path = "refused"
    /\ result.output = <<"Terminal session is closed">>
    /\ s_initialized
    /\ s_closed
    /\ fd = "none"

EndsWithLineTerminator(text) == text # <<>> /\ text[Len(text)] \in {"nl", "cr"}

\* C38: what send_keys writes is the text with CRLF and CR made LF, holds no
\* CR, and with enter has one LF appended unless the text already ends with a
\* line terminator.
C38_SendKeysNormalizes ==
    [][ (/\ calls' = calls + 1
         /\ result'.path \in {"send_keys", "send_keys_enter"}
         /\ result'.kind = "None")
            => LET data == ptyIn'[Len(ptyIn')].d
                   text == result'.cmd
               IN  /\ ptyIn' = Append(ptyIn, Written(data, calls'))
                   /\ \A i \in 1..Len(data) : data[i] # "cr"
                   /\ data = IF result'.path = "send_keys_enter"
                                /\ ~EndsWithLineTerminator(text)
                             THEN _normalize_eols(text) \o <<"nl">>
                             ELSE _normalize_eols(text) ]_vars

\* C39: an execute call on a running session takes the special-key path for
\* a command that trims to three characters beginning 'C-', whatever is_input;
\* otherwise the input path when is_input, otherwise the command path.  An
\* unknown key returns 'Unknown special key' with exit code 1 and neither
\* writes nor signals.
C39_DispatchPriority ==
    [][ (calls' = calls + 1 /\ s_initialized /\ ~s_closed)
            => LET cmd == IF pc' = "polling" THEN command' ELSE result'.cmd
                   path == IF pc' = "polling" THEN "command" ELSE result'.path
                   c == strip(cmd)
                   special == Len(c) = 3 /\ c[1] = "C" /\ c[2] = "-"
               IN  /\ path = IF special THEN "special"
                             ELSE IF dispatched_input' THEN "input" ELSE "command"
                   /\ (special /\ c[3] \notin {"c", "z", "d", "C", "Z", "D"})
                         => /\ result'.output = <<"Unknown special key">> \o cmd
                            /\ result'.exit_code = 1
                            /\ ptyIn' = ptyIn
                            /\ pendingSig' = pendingSig ]_vars

\* an unknown key passed with is_input true was answered as a special key
C39_UnknownKeyWithInput ==
    /\ result.path = "special"
    /\ dispatched_input
    /\ result.cmd = <<" ", "C", "-", "q", "nl">>
    /\ result.exit_code = 1

\* ms lists, in order, every block of s: each begins with a begin marker and
\* ends at the first end marker after it, with no begin marker in between; no
\* two overlap; and every begin marker that has such an end begins one
BlocksInOrder(s, ms) ==
    LET Block(b, e) ==
            /\ b < e
            /\ s[b] = "B"
            /\ s[e] = "E"
            /\ \A m \in (b + 1)..(e - 1) : s[m] \notin {"B", "E"}
    IN  /\ \A j \in 1..Len(ms) : Block(ms[j].b, ms[j].e)
        /\ \A j \in 1..(Len(ms) - 1) : ms[j].e < ms[j + 1].b
        /\ \A b \in 1..Len(s) :
              (\E e \in 1..Len(s) : Block(b, e)) => \E j \in 1..Len(ms) : ms[j].b = b

\* the text holds a begin marker and no end marker, or an end marker and no
\* begin marker
Unpaired(s) ==
    \/ (\E i \in 1..Len(s) : s[i] = "B") /\ (\A i \in 1..Len(s) : s[i] # "E")
    \/ (\E i \in 1..Len(s) : s[i] = "E") /\ (\A i \in 1..Len(s) : s[i] # "B")

\* C36: on every snapshot the matcher returns the blocks in order; on a
\* snapshot with an unpaired marker it returns none, and that poll does not end
\* the call: the call goes on polling, unless a timeout ends it.
C36_MatcherFindsBlocksInOrder ==
    [][ pc = "polling"
            => /\ BlocksInOrder(read_screen, CMD_OUTPUT_METADATA_PS1_REGEX(read_screen))
               /\ Unpaired(read_screen)
                     => /\ CMD_OUTPUT_METADATA_PS1_REGEX(read_screen) = <<>>
                        /\ \/ pc' = "polling"
                           \/ result'.kind \in {"HARD_TIMEOUT", "SOFT_TIMEOUT"} ]_vars

====
